---- MODULE Spec2Model ----
(***************************************************************************)
(* Model of the interactive commit helper, in its two variants:            *)
(*   "main_go"  : src/main.go          (readInput, map catalog, no body)   *)
(*   "part_000" : src/unnamed/part_000 (readLine, slice catalog, body)     *)
(* A string is a sequence of one-character strings, so that the regular    *)
(* expressions, TrimSpace, ToLower and Atoi are computed character by      *)
(* character as the Go code computes them.  A line never holds its         *)
(* terminator.                                                             *)
(***************************************************************************)
EXTENDS Integers, Sequences, FiniteSets, TLC

VARIABLES
    variant,        \* which of the two programs runs
    pc,             \* position of main
    script,         \* lines already supplied on stdin when main starts (piped input)
    stdin,          \* supplied lines no read has fetched yet
    eof,            \* the writer of stdin has closed it
    buf,            \* lines fetched by readMultiline's scanner and not yet scanned
    line,           \* scanner.Text() of the last Scan
    lost,           \* lines fetched into a scanner's buffer and dropped with the scanner
    diffErr,        \* err of runGitCommand("diff","--cached","--quiet"): "none" | "nil" | "err"
    workItem,
    commitType,
    description,
    lines,          \* readMultiline's lines
    body,
    commitMessage,
    displayed,      \* the message written to stdout before the confirmation
    confirm,
    out,            \* the last thing written to stdout
    visited,        \* catalog numbers printed so far by the range loop
    prompted,       \* a prompt has been written
    readAny,        \* a Scan has been made
    commitCalls,    \* number of runGitCommand("commit","-m",...) calls
    commitArg,      \* the message passed to the commit
    commitErr,      \* err of the commit: "none" | "nil" | "err"
    exitCode,       \* -1 while running, else the exit status
    events,         \* the milestones of the run, in the order they happened
    call            \* a single call of a pure function (specification PureSpec)

vars == << variant, pc, script, stdin, eof, buf, line, lost, diffErr, workItem,
           commitType, description, lines, body, commitMessage, displayed,
           confirm, out, visited, prompted, readAny, commitCalls, commitArg,
           commitErr, exitCode, events, call >>

-----------------------------------------------------------------------------
(* Bounds *)

\* readMultiline: lines an operator types before the empty line
MaxBody == 1
\* length of the generated type-number inputs
MaxTypeLen == 2
\* length of the generated tails of work-item inputs
MaxTail == 4
\* length of the generated heads of description inputs
MaxHead == 2

-----------------------------------------------------------------------------
(* Characters and strings *)

UpperLetters == << "A","B","C","D","E","F","G","H","I","J","K","L","M",
                   "N","O","P","Q","R","S","T","U","V","W","X","Y","Z" >>

LowerLetters == << "a","b","c","d","e","f","g","h","i","j","k","l","m",
                   "n","o","p","q","r","s","t","u","v","w","x","y","z" >>

DigitChars == << "0","1","2","3","4","5","6","7","8","9" >>

Range(s) == { s[i] : i \in 1..Len(s) }

IsUpper(c) == c \in Range(UpperLetters)
IsLower(c) == c \in Range(LowerLetters)
IsDigit(c) == c \in Range(DigitChars)

\* unicode.IsSpace on the characters a line can hold
IsSpace(c) == c \in { " ", "\t", "\r", "\f" }

IndexIn(s, c) == CHOOSE i \in 1..Len(s) : s[i] = c

ToLowerChar(c) == IF IsUpper(c) THEN LowerLetters[IndexIn(UpperLetters, c)] ELSE c
ToUpperChar(c) == IF IsLower(c) THEN UpperLetters[IndexIn(LowerLetters, c)] ELSE c

\* strings.ToLower
ToLower(s) == [ i \in 1..Len(s) |-> ToLowerChar(s[i]) ]

\* strings.TrimSpace
RECURSIVE TrimLeft(_)
TrimLeft(s) == IF s # << >> /\ IsSpace(Head(s)) THEN TrimLeft(Tail(s)) ELSE s

RECURSIVE TrimRight(_)
TrimRight(s) ==
    IF s # << >> /\ IsSpace(s[Len(s)]) THEN TrimRight(SubSeq(s, 1, Len(s) - 1)) ELSE s

TrimSpace(s) == TrimRight(TrimLeft(s))

\* strings.Join(lines, "\n")
RECURSIVE Join(_)
Join(ls) ==
    IF ls = << >> THEN << >>
    ELSE IF Len(ls) = 1 THEN ls[1]
    ELSE ls[1] \o << "\n" >> \o Join(Tail(ls))

\* all strings over the characters cs of length at most n
RECURSIVE StringsUpTo(_, _)
StringsUpTo(cs, n) ==
    IF n = 0 THEN { << >> }
    ELSE LET shorter == StringsUpTo(cs, n - 1)
         IN  shorter \cup { Append(s, c) : s \in shorter, c \in cs }

\* the string of n characters c
Repeat(c, n) == [ i \in 1..n |-> c ]

-----------------------------------------------------------------------------
(* The pure functions of the two programs *)

Variants == { "main_go", "part_000" }

\* regexp `^([A-Za-z]+-)?\d+$` as an automaton over the characters:
\* "0" start, "L" in the letters, "N" after the hyphen, "D" in the digits
\* (accepting), "X" no match
WorkItemStateA(q, c) ==
    CASE q = "0" /\ (IsUpper(c) \/ IsLower(c)) -> "L"
      [] q = "0" /\ IsDigit(c) -> "D"
      [] q = "L" /\ (IsUpper(c) \/ IsLower(c)) -> "L"
      [] q = "L" /\ c = "-" -> "N"
      [] q = "N" /\ IsDigit(c) -> "D"
      [] q = "D" /\ IsDigit(c) -> "D"
      [] OTHER -> "X"

\* regexp `^bcds-\d+(-[a-z0-9]+)*$` as an automaton: "p0".."p4" inside the
\* literal bcds-, "N" needs a digit, "D" in the digits (accepting), "S" needs a
\* segment character, "G" in a segment (accepting), "X" no match
WorkItemStateB(q, c) ==
    CASE q = "p0" /\ c = "b" -> "p1"
      [] q = "p1" /\ c = "c" -> "p2"
      [] q = "p2" /\ c = "d" -> "p3"
      [] q = "p3" /\ c = "s" -> "p4"
      [] q = "p4" /\ c = "-" -> "N"
      [] q = "N" /\ IsDigit(c) -> "D"
      [] q = "D" /\ IsDigit(c) -> "D"
      [] q = "D" /\ c = "-" -> "S"
      [] q = "S" /\ (IsLower(c) \/ IsDigit(c)) -> "G"
      [] q = "G" /\ (IsLower(c) \/ IsDigit(c)) -> "G"
      [] q = "G" /\ c = "-" -> "S"
      [] OTHER -> "X"

RECURSIVE RunWorkItem(_, _, _)
RunWorkItem(v, q, s) ==
    IF s = << >> THEN q
    ELSE RunWorkItem(v,
                     IF v = "main_go" THEN WorkItemStateA(q, Head(s))
                                      ELSE WorkItemStateB(q, Head(s)),
                     Tail(s))

\* a buggy validateWorkItem: the variant's pattern without its end anchor
validateWorkItem_Unanchored(v, w) ==
    \E n \in 1..Len(w) :
        IF v = "main_go"
        THEN RunWorkItem(v, "0", SubSeq(w, 1, n)) = "D"
        ELSE RunWorkItem(v, "p0", SubSeq(w, 1, n)) \in { "D", "G" }

validateWorkItem(v, w) ==
    IF v = "main_go"
    THEN RunWorkItem(v, "0", w) = "D"
    ELSE RunWorkItem(v, "p0", w) \in { "D", "G" }

\* the work-item loop's body up to the test: what the loop assigns to
\* workItem from the scanned line
WorkItemOf(v, ln) ==
    IF v = "main_go" THEN TrimSpace(ln) ELSE ToLower(TrimSpace(ln))

\* len(desc) > 72
MaxDescLen == 72

Punctuation == { " ", ",", ".", "!", "?", "-" }

\* the character class of the description pattern:
\*   main_go   [A-Za-z0-9 ,.!?\-\(\)]
\*   part_000  [A-Za-z0-9 ,.!?\-$begin:math:text$$end:math:text$]
DescClass(v) ==
    Range(UpperLetters) \cup Range(LowerLetters) \cup Range(DigitChars)
        \cup Punctuation
        \cup (IF v = "main_go" THEN { "(", ")" } ELSE { "$", ":" })

validateEnglishDescription(v, desc) ==
    IF Len(desc) = 0 \/ Len(desc) > MaxDescLen THEN FALSE
    ELSE IF v = "main_go" /\ ToUpperChar(desc[1]) # desc[1] THEN FALSE
    ELSE \A i \in 1..Len(desc) : desc[i] \in DescClass(v)

\* the catalog's codes, in the order of the source
CatalogCodes ==
    << << "f","e","a","t" >>,
       << "f","i","x" >>,
       << "d","o","c","s" >>,
       << "s","t","y","l","e" >>,
       << "r","e","f","a","c","t","o","r" >>,
       << "p","e","r","f" >>,
       << "t","e","s","t" >>,
       << "b","u","i","l","d" >>,
       << "c","i" >>,
       << "c","h","o","r","e" >> >>

\* getCommitTypes: a map keyed 1..10 in main_go, a slice in part_000 (here
\* indexed from 1)
getCommitTypes == CatalogCodes

DigitValue(c) == IndexIn(DigitChars, c) - 1

RECURSIVE DigitsValue(_, _)
DigitsValue(s, n) ==
    IF s = << >> THEN n ELSE DigitsValue(Tail(s), n * 10 + DigitValue(Head(s)))

\* strconv.Atoi: an optional sign, then one or more digits
Atoi(s) ==
    LET signed == s # << >> /\ Head(s) \in { "+", "-" }
        ds     == IF signed THEN Tail(s) ELSE s
    IN  IF ds = << >> \/ \E i \in 1..Len(ds) : ~IsDigit(ds[i])
        THEN [ ok |-> FALSE, n |-> 0 ]
        ELSE [ ok |-> TRUE,
               n  |-> IF signed /\ Head(s) = "-" THEN 0 - DigitsValue(ds, 0)
                                                 ELSE DigitsValue(ds, 0) ]

\* a buggy type selection: the range test starts at 0 and the index is not
\* shifted
TypeChoice_OffByOne(v, input) ==
    LET r == Atoi(input)
    IN  IF r.ok /\ r.n >= 0 /\ r.n < Len(getCommitTypes) THEN r.n + 1 ELSE 0

\* the type loop's test: the catalog number the input selects, 0 for none
\*   main_go   err == nil and commitTypes[choice] exists
\*   part_000  err == nil && choice >= 1 && choice <= len(commitTypes)
TypeChoice(v, input) ==
    LET r == Atoi(input)
    IN  IF v = "main_go"
        THEN IF r.ok /\ r.n \in DOMAIN getCommitTypes THEN r.n ELSE 0
        ELSE IF r.ok /\ r.n >= 1 /\ r.n <= Len(getCommitTypes) THEN r.n ELSE 0

\* fmt.Sprintf("%s(%s): %s", ...) and, in part_000, "\n\n" + body when the
\* body is not empty
BuildMessage(v, ct, wi, desc, bd) ==
    ct \o << "(" >> \o wi \o << ")", ":", " " >> \o desc
       \o (IF v = "part_000" /\ bd # << >> THEN << "\n", "\n" >> \o bd ELSE << >>)

\* strings.ToLower(confirm) is "y" or "yes"
IsYes(c) == ToLower(c) \in { << "y" >>, << "y", "e", "s" >> }

-----------------------------------------------------------------------------
(* What an operator may type at each prompt *)

WorkItemInputs ==
    { << >>,
      << "b","c","d","s","-","4","2" >>,
      << " ","b","c","d","s","-","4","2"," " >>,
      << "B","C","D","S","-","7","-","a" >>,
      << "4","2" >>,
      << "b","c","d","s","-" >> }

TypeInputs ==
    StringsUpTo({ "0", "1", "+" }, MaxTypeLen)
        \cup { << DigitChars[i] >> : i \in 3..10 }
        \cup { << "1","0" >>, << "1","1" >>, << "-","1" >>, << "x" >>,
               << " ","1"," " >> }

DescInputs ==
    { << >>,
      << "A","d","d"," ","x" >>,
      << "f","i","x" >>,
      << "F","(","a",")" >>,
      << "A",":","$" >> }

BodyInputs == { << >>, << " " >>, << "F","i","x" >> }

ConfirmInputs ==
    { << >>, << "y" >>, << "Y","e","s" >>, << " ","y"," " >>, << "n" >>,
      << "y","y" >> }

\* the lines of an end-to-end run piped into the program: a work-item, a type
\* number, a description, (part_000) the empty line ending the body, and "y"
Scripts(v) ==
    { << << "b","c","d","s","-","4","2" >>, n, << "A","d","d"," ","x" >> >>
        \o (IF v = "part_000" THEN << << >> >> ELSE << >>)
        \o << << "y" >> >>
      : n \in { << "1" >>, << "1","0" >> } }

-----------------------------------------------------------------------------
(* The state machine of main *)

Out(k, n) == [ kind |-> k, num |-> n ]

NoCall == [ fn |-> "none", v |-> "none", arg |-> << >>, ok |-> FALSE,
            val |-> << >>, done |-> FALSE ]

Init ==
    /\ variant \in Variants
    /\ script \in { << >> } \cup Scripts(variant)
    /\ stdin = script
    /\ eof = FALSE
    /\ pc = "start"
    /\ buf = << >>
    /\ line = << >>
    /\ lost = 0
    /\ diffErr = "none"
    /\ workItem = << >>
    /\ commitType = << >>
    /\ description = << >>
    /\ lines = << >>
    /\ body = << >>
    /\ commitMessage = << >>
    /\ displayed = << >>
    /\ confirm = << >>
    /\ out = Out("nothing", 0)
    /\ visited = { }
    /\ prompted = FALSE
    /\ readAny = FALSE
    /\ commitCalls = 0
    /\ commitArg = << >>
    /\ commitErr = "none"
    /\ exitCode = -1
    /\ events = << >>
    /\ call = NoCall

\* a buggy precondition check: the error is printed but main goes on
CheckStaged_NoExit ==
    /\ pc = "start"
    /\ \E e \in { "nil", "err" } :
        /\ diffErr' = e
        /\ out' = IF e = "nil" THEN Out("no_staged", 0) ELSE Out("banner", 0)
        /\ pc' = "workitem"
        /\ events' = Append(events, "staged")
        /\ exitCode' = exitCode
    /\ UNCHANGED << variant, script, stdin, eof, buf, line, lost, workItem,
                    commitType, description, lines, body, commitMessage,
                    displayed, confirm, visited, prompted, readAny,
                    commitCalls, commitArg, commitErr, call >>

\* runGitCommand("diff", "--cached", "--quiet"): err == nil means nothing is
\* staged
CheckStaged ==
    /\ pc = "start"
    /\ \E e \in { "nil", "err" } :
        /\ diffErr' = e
        /\ IF e = "nil"
           THEN /\ out' = Out("no_staged", 0)
                /\ exitCode' = 1
                /\ pc' = "exited"
                /\ events' = events
           ELSE /\ out' = Out("banner", 0)
                /\ exitCode' = exitCode
                /\ pc' = "workitem"
                /\ events' = Append(events, "staged")
    /\ UNCHANGED << variant, script, stdin, eof, buf, line, lost, workItem,
                    commitType, description, lines, body, commitMessage,
                    displayed, confirm, visited, prompted, readAny,
                    commitCalls, commitArg, commitErr, call >>

\* bufio.NewScanner(os.Stdin) followed by one Scan and Text, as readLine and
\* readInput do: the scanner's read fetches one or more of the supplied lines (a
\* terminal hands over one line, a pipe or a file what it holds), Text is the
\* first of them, and the others go with the scanner when the function
\* returns.  With nothing supplied the read waits for the operator's line, or,
\* stdin closed, Scan fails and Text is empty.
NewScannerScan(inputs) ==
    IF stdin # << >>
    THEN { [ tok |-> Head(stdin), rest |-> SubSeq(stdin, k + 1, Len(stdin)),
             dropped |-> k - 1 ] : k \in 1..Len(stdin) }
    ELSE IF eof
    THEN { [ tok |-> << >>, rest |-> << >>, dropped |-> 0 ] }
    ELSE { [ tok |-> l, rest |-> << >>, dropped |-> 0 ] : l \in inputs }

\* the work-item loop: one iteration
ReadWorkItem ==
    /\ pc = "workitem"
    /\ \E o \in NewScannerScan(WorkItemInputs) :
        /\ line' = o.tok
        /\ stdin' = o.rest
        /\ lost' = lost + o.dropped
        /\ workItem' = WorkItemOf(variant, o.tok)
        /\ IF validateWorkItem(variant, workItem')
           THEN /\ pc' = "catalog"
                /\ out' = Out("catalog_header", 0)
                /\ events' = Append(events, "workitem")
           ELSE /\ pc' = "workitem"
                /\ out' = Out("invalid_workitem", 0)
                /\ events' = events
    /\ prompted' = TRUE
    /\ readAny' = TRUE
    /\ UNCHANGED << variant, script, eof, buf, diffErr, commitType, description,
                    lines, body, commitMessage, displayed, confirm, visited,
                    commitCalls, commitArg, commitErr, exitCode, call >>

\* the catalog numbers the range loop may yield next: a Go map is ranged over
\* in an unspecified order, a slice from its first element on
NextCatalogKeys ==
    IF variant = "main_go"
    THEN DOMAIN getCommitTypes \ visited
    ELSE { Cardinality(visited) + 1 }

\* for i, ct := range commitTypes { fmt.Printf("   %d. %-8s %s\n", ...) }: one
\* iteration prints entry number k, which joins visited
PrintCatalogEntry ==
    /\ pc = "catalog"
    /\ \E k \in NextCatalogKeys :
        /\ out' = Out("entry", 0)
        /\ visited' = visited \cup { k }
        /\ pc' = IF visited' = DOMAIN getCommitTypes THEN "type" ELSE "catalog"
    /\ UNCHANGED << variant, script, stdin, eof, buf, line, lost, diffErr,
                    workItem, commitType, description, lines, body,
                    commitMessage, displayed, confirm, prompted, readAny,
                    commitCalls, commitArg, commitErr, exitCode, events, call >>

\* a buggy type loop: an invalid number ends the process
ReadType_ExitOnInvalid ==
    /\ pc = "type"
    /\ \E o \in NewScannerScan(TypeInputs) :
        LET n == TypeChoice(variant, TrimSpace(o.tok))
        IN  /\ line' = o.tok
            /\ stdin' = o.rest
            /\ lost' = lost + o.dropped
            /\ IF n # 0
               THEN /\ commitType' = getCommitTypes[n]
                    /\ pc' = "desc"
                    /\ out' = Out("desc_header", 0)
                    /\ events' = Append(events, "type")
                    /\ exitCode' = exitCode
               ELSE /\ commitType' = commitType
                    /\ pc' = "exited"
                    /\ out' = Out("range_hint", Len(getCommitTypes))
                    /\ events' = events
                    /\ exitCode' = 1
    /\ UNCHANGED << variant, script, eof, buf, diffErr, workItem, description,
                    lines, body, commitMessage, displayed, confirm, visited,
                    prompted, readAny, commitCalls, commitArg, commitErr, call >>

\* the type loop: one iteration
ReadType ==
    /\ pc = "type"
    /\ \E o \in NewScannerScan(TypeInputs) :
        LET n == TypeChoice(variant, TrimSpace(o.tok))
        IN  /\ line' = o.tok
            /\ stdin' = o.rest
            /\ lost' = lost + o.dropped
            /\ IF n # 0
               THEN /\ commitType' = getCommitTypes[n]
                    /\ pc' = "desc"
                    /\ out' = Out("desc_header", 0)
                    /\ events' = Append(events, "type")
               ELSE /\ commitType' = commitType
                    /\ pc' = "type"
                    /\ out' = Out("range_hint", Len(getCommitTypes))
                    /\ events' = events
    /\ UNCHANGED << variant, script, eof, buf, diffErr, workItem, description,
                    lines, body, commitMessage, displayed, confirm, visited,
                    prompted, readAny, commitCalls, commitArg, commitErr,
                    exitCode, call >>

\* commitMessage := fmt.Sprintf(...) (+ body) and its display before the
\* confirmation prompt; ev are the milestones reached so far
AssembleAndDisplay(desc, bd, ev) ==
    /\ body' = bd
    /\ commitMessage' = BuildMessage(variant, commitType, workItem, desc, bd)
    /\ displayed' = commitMessage'
    /\ out' = Out("message", 0)
    /\ events' = Append(ev, "display")
    /\ pc' = "confirm"

\* the description loop: one iteration; main_go goes on to assemble the
\* message, part_000 enters readMultiline, which prints its prompt
ReadDescription ==
    /\ pc = "desc"
    /\ \E o \in NewScannerScan(DescInputs) :
        /\ line' = o.tok
        /\ stdin' = o.rest
        /\ lost' = lost + o.dropped
        /\ description' = TrimSpace(o.tok)
        /\ IF ~validateEnglishDescription(variant, description')
           THEN /\ pc' = "desc"
                /\ out' = Out("invalid_description", 0)
                /\ UNCHANGED << body, commitMessage, displayed, events >>
           ELSE IF variant = "main_go"
           THEN AssembleAndDisplay(description', << >>, Append(events, "desc"))
           ELSE /\ pc' = "body"
                /\ out' = Out("body_prompt", 0)
                /\ events' = Append(events, "desc")
                /\ UNCHANGED << body, commitMessage, displayed >>
    /\ UNCHANGED << variant, script, eof, buf, diffErr, workItem, commitType,
                    lines, confirm, visited, prompted, readAny, commitCalls,
                    commitArg, commitErr, exitCode, call >>

\* one Scan of readMultiline's scanner, which lives for the whole loop: it
\* hands over what it already fetched before it reads again
BodyScan ==
    IF buf # << >>
    THEN { [ tok |-> Head(buf), keep |-> Tail(buf), rest |-> stdin ] }
    ELSE IF stdin # << >>
    THEN { [ tok |-> Head(stdin), keep |-> SubSeq(stdin, 2, k),
             rest |-> SubSeq(stdin, k + 1, Len(stdin)) ] : k \in 1..Len(stdin) }
    ELSE IF eof
    THEN { [ tok |-> << >>, keep |-> << >>, rest |-> << >> ] }
    ELSE { [ tok |-> l, keep |-> << >>, rest |-> << >> ] :
             l \in { x \in BodyInputs :
                       Len(lines) < MaxBody \/ TrimSpace(x) = << >> } }

\* if strings.TrimSpace(line) == "" { break }
BodyEnds(ln) == TrimSpace(ln) = << >>

\* readMultiline's loop: one iteration; on the ending line the function
\* returns strings.Join(lines, "\n") and main assembles the message
ReadBodyLine ==
    /\ pc = "body"
    /\ \E o \in BodyScan :
        /\ line' = o.tok
        /\ stdin' = o.rest
        /\ IF BodyEnds(o.tok)
           THEN /\ lines' = lines
                /\ buf' = << >>
                /\ lost' = lost + Len(o.keep)
                /\ AssembleAndDisplay(description, Join(lines), events)
           ELSE /\ lines' = Append(lines, o.tok)
                /\ buf' = o.keep
                /\ lost' = lost
                /\ UNCHANGED << body, commitMessage, displayed, out, events, pc >>
    /\ readAny' = TRUE
    /\ UNCHANGED << variant, script, eof, diffErr, workItem, commitType,
                    description, confirm, visited, prompted, commitCalls,
                    commitArg, commitErr, exitCode, call >>

\* what main keeps of the confirmation line
ConfirmOf(v, ln) ==
    IF v = "main_go" THEN TrimSpace(ln) ELSE ToLower(TrimSpace(ln))

\* a buggy confirmation: every answer starting with y confirms
Confirmed_Prefix(c) == c # << >> /\ ToLowerChar(Head(c)) = "y"

\* !(strings.ToLower(confirm) != "y" && strings.ToLower(confirm) != "yes")
Confirmed(c) == IsYes(c)

\* the confirmation prompt: anything but y or yes cancels with status 0
ReadConfirm ==
    /\ pc = "confirm"
    /\ \E o \in NewScannerScan(ConfirmInputs) :
        /\ line' = o.tok
        /\ stdin' = o.rest
        /\ lost' = lost + o.dropped
        /\ confirm' = ConfirmOf(variant, o.tok)
        /\ IF Confirmed(confirm')
           THEN /\ pc' = "commit"
                /\ events' = Append(events, "confirm")
                /\ UNCHANGED << out, exitCode >>
           ELSE /\ pc' = "exited"
                /\ out' = Out("cancelled", 0)
                /\ exitCode' = 0
                /\ events' = events
    /\ UNCHANGED << variant, script, eof, buf, diffErr, workItem, commitType,
                    description, lines, body, commitMessage, displayed, visited,
                    prompted, readAny, commitCalls, commitArg, commitErr, call >>

\* a buggy submission: a failed commit is reported but leaves status 0
RunCommit_FailureExitsZero ==
    /\ pc = "commit"
    /\ \E e \in { "nil", "err" } :
        /\ commitErr' = e
        /\ out' = IF e = "err" THEN Out("commit_failed", 0) ELSE Out("success", 0)
        /\ exitCode' = 0
    /\ commitCalls' = commitCalls + 1
    /\ commitArg' = commitMessage
    /\ events' = Append(events, "commit")
    /\ pc' = "exited"
    /\ UNCHANGED << variant, script, stdin, eof, buf, line, lost, diffErr,
                    workItem, commitType, description, lines, body,
                    commitMessage, displayed, confirm, visited, prompted,
                    readAny, call >>

\* runGitCommand("commit", "-m", commitMessage): failure exits with 1, success
\* prints the banner and main returns
RunCommit ==
    /\ pc = "commit"
    /\ \E e \in { "nil", "err" } :
        /\ commitErr' = e
        /\ out' = IF e = "err" THEN Out("commit_failed", 0) ELSE Out("success", 0)
        /\ exitCode' = IF e = "err" THEN 1 ELSE 0
    /\ commitCalls' = commitCalls + 1
    /\ commitArg' = commitMessage
    /\ events' = Append(events, "commit")
    /\ pc' = "exited"
    /\ UNCHANGED << variant, script, stdin, eof, buf, line, lost, diffErr,
                    workItem, commitType, description, lines, body,
                    commitMessage, displayed, confirm, visited, prompted,
                    readAny, call >>

\* the environment closes stdin (end of the piped input, or the operator's
\* end-of-file key)
CloseStdin ==
    /\ pc # "exited"
    /\ ~eof
    /\ eof' = TRUE
    /\ UNCHANGED << variant, pc, script, stdin, buf, line, lost, diffErr,
                    workItem, commitType, description, lines, body,
                    commitMessage, displayed, confirm, out, visited, prompted,
                    readAny, commitCalls, commitArg, commitErr, exitCode,
                    events, call >>

Next ==
    \/ CheckStaged
    \/ ReadWorkItem
    \/ PrintCatalogEntry
    \/ ReadType
    \/ ReadDescription
    \/ ReadBodyLine
    \/ ReadConfirm
    \/ RunCommit
    \/ CloseStdin

Spec == Init /\ [][Next]_vars

-----------------------------------------------------------------------------
(* The validators on their own: one call on a generated argument *)

WorkItemHeads ==
    { << >>,
      << "b","c","d","s" >>,
      << "B","C","D","S" >>,
      << "b","c","d" >>,
      << " ","b","c","d","s" >>,
      << "x","b","c","d","s" >>,
      << "P","r" >> }

WorkItemArgs ==
    { h \o t : h \in WorkItemHeads,
               t \in StringsUpTo({ "-", "1", "a", "A", " ", "_" }, MaxTail) }

DescArgs ==
    { h \o Repeat("a", n) :
        h \in StringsUpTo({ "A", "a", "1", " ", "(", ")", "$", ":", "_" }, MaxHead),
        n \in { 0 } \cup ((MaxDescLen - MaxHead)..(MaxDescLen + 1)) }

PureCall(f, v, a) ==
    [ fn |-> f, v |-> v, arg |-> a, ok |-> FALSE, val |-> << >>, done |-> FALSE ]

PureInit ==
    /\ variant \in Variants
    /\ call \in { PureCall("workitem", variant, a) : a \in WorkItemArgs }
                \cup { PureCall("description", variant, a) : a \in DescArgs }
    /\ script = << >>
    /\ stdin = << >>
    /\ eof = FALSE
    /\ pc = "start"
    /\ buf = << >>
    /\ line = << >>
    /\ lost = 0
    /\ diffErr = "none"
    /\ workItem = << >>
    /\ commitType = << >>
    /\ description = << >>
    /\ lines = << >>
    /\ body = << >>
    /\ commitMessage = << >>
    /\ displayed = << >>
    /\ confirm = << >>
    /\ out = Out("nothing", 0)
    /\ visited = { }
    /\ prompted = FALSE
    /\ readAny = FALSE
    /\ commitCalls = 0
    /\ commitArg = << >>
    /\ commitErr = "none"
    /\ exitCode = -1
    /\ events = << >>

MainUnchanged ==
    UNCHANGED << variant, pc, script, stdin, eof, buf, line, lost, diffErr,
                 workItem, commitType, description, lines, body, commitMessage,
                 displayed, confirm, out, visited, prompted, readAny,
                 commitCalls, commitArg, commitErr, exitCode, events >>

\* the work-item loop's assignment and test on the line call.arg
CallWorkItem ==
    /\ call.fn = "workitem"
    /\ ~call.done
    /\ LET w == WorkItemOf(call.v, call.arg)
       IN  call' = [ call EXCEPT !.val = w,
                                 !.ok = validateWorkItem(call.v, w),
                                 !.done = TRUE ]
    /\ MainUnchanged

\* validateEnglishDescription(call.arg)
CallDescription ==
    /\ call.fn = "description"
    /\ ~call.done
    /\ call' = [ call EXCEPT !.val = call.arg,
                             !.ok = validateEnglishDescription(call.v, call.arg),
                             !.done = TRUE ]
    /\ MainUnchanged

PureNext == CallWorkItem \/ CallDescription

PureSpec == PureInit /\ [][PureNext]_vars

-----------------------------------------------------------------------------
(* Fairness: the program takes the step it is at (a step is enabled only
   when its input is there), and an operator who is asked again and again
   eventually types a line the prompt accepts *)

ProgramStep ==
    \/ CheckStaged
    \/ ReadWorkItem
    \/ PrintCatalogEntry
    \/ ReadType
    \/ ReadDescription
    \/ ReadBodyLine

AcceptedRead ==
    \/ ReadWorkItem /\ pc' = "catalog"
    \/ ReadType /\ pc' = "desc"
    \/ ReadDescription /\ pc' # "desc"
    \/ ReadBodyLine /\ pc' = "confirm"

FairSpec == Spec /\ WF_vars(ProgramStep) /\ SF_vars(AcceptedRead)

-----------------------------------------------------------------------------
(* Vocabulary of the claims *)

\* the order of steps a run goes through
Milestones ==
    << "staged", "workitem", "type", "desc", "display", "confirm", "commit" >>

\* the catalog order the specification names
ClaimedCodes ==
    << << "f","e","a","t" >>, << "f","i","x" >>, << "d","o","c","s" >>,
       << "s","t","y","l","e" >>, << "r","e","f","a","c","t","o","r" >>,
       << "p","e","r","f" >>, << "t","e","s","t" >>, << "b","u","i","l","d" >>,
       << "c","i" >>, << "c","h","o","r","e" >> >>

IsPrefix(s, t) == Len(s) <= Len(t) /\ SubSeq(t, 1, Len(s)) = s

Yes == { << "y" >>, << "y","e","s" >> }

\* the decimal numeral of n, 0 <= n <= 99
Decimal(n) ==
    IF n < 10 THEN << DigitChars[n + 1] >>
    ELSE << DigitChars[(n \div 10) + 1], DigitChars[(n % 10) + 1] >>

\* s is an optional +, any zeros, then the numeral of n (n >= 1)
ParsesAs(s, n) ==
    \E p \in 0..1, z \in 0..Len(s) :
        /\ p + z + Len(Decimal(n)) = Len(s)
        /\ p = 1 => s[1] = "+"
        /\ \A i \in (p + 1)..(p + z) : s[i] = "0"
        /\ SubSeq(s, p + z + 1, Len(s)) = Decimal(n)

Selected(s) == { n \in 1..Len(ClaimedCodes) : ParsesAs(s, n) }

\* stdin is at end-of-file: every read yields the empty line
AtEOF == eof /\ stdin = << >> /\ buf = << >>

FirstLine(ct, wi, desc) == ct \o << "(" >> \o wi \o << ")", ":", " " >> \o desc

-----------------------------------------------------------------------------
(* C1 *)

\* C1: the commit is invoked at most once, and only after the staged-changes
\* check reported staged changes, a work-item was accepted, a type was
\* selected, a description was accepted, the message was displayed and the
\* answer (the line as readLine returns it, trimmed) was y or yes in any
\* case, in this order; any other answer never reaches the commit; the
\* message passed is the message displayed.
C1_CommitOnlyAfterConfirmation ==
    /\ commitCalls <= 1
    /\ IsPrefix(events, Milestones)
    /\ commitCalls = 1 <=> (events = Milestones)
    /\ commitCalls = 1 =>
        /\ diffErr = "err"
        /\ validateWorkItem(variant, workItem)
        /\ commitType \in Range(ClaimedCodes)
        /\ validateEnglishDescription(variant, description)
        /\ commitArg = displayed
        /\ displayed = commitMessage
        /\ ToLower(TrimSpace(line)) \in Yes
    /\ (pc \in { "commit", "exited" } /\ Len(events) >= 5
            /\ ToLower(TrimSpace(line)) \notin Yes) => commitCalls = 0 /\ pc = "exited"

C1_Witness ==
    /\ commitCalls = 1
    /\ commitErr = "nil"
    /\ line = << "Y","e","s" >>
    /\ variant = "part_000"
    /\ body # << >>

-----------------------------------------------------------------------------
(* C2 *)

\* C2: when the staged-changes query finds nothing staged, main prints the
\* error and exits with status 1 before any prompt is written or any line is
\* read, and the commit is never invoked.
C2_NoStagedChangesExits ==
    diffErr = "nil" =>
        /\ pc = "exited"
        /\ exitCode = 1
        /\ out = Out("no_staged", 0)
        /\ ~prompted
        /\ ~readAny
        /\ stdin = script
        /\ commitCalls = 0

C2_Witness == diffErr = "nil" /\ pc = "exited" /\ script # << >>

-----------------------------------------------------------------------------
(* C3 *)

\* C3: a terminated main has status 1 exactly when nothing was staged or the
\* commit failed, and status 0 exactly when the commit succeeded or the
\* operator cancelled at the confirmation; no run ends inside a validation
\* loop.
C3_ExitStatus ==
    /\ pc # "exited" => exitCode = -1
    /\ pc = "exited" =>
        /\ exitCode \in { 0, 1 }
        /\ exitCode = 1 <=> (diffErr = "nil" \/ commitErr = "err")
        /\ exitCode = 0 <=>
              (commitErr = "nil"
                 \/ (commitCalls = 0 /\ Len(events) = 5
                       /\ ToLower(TrimSpace(line)) \notin Yes))
        /\ Len(events) \in { 0, 5, 7 }

C3_Witness == pc = "exited" /\ exitCode = 1 /\ commitErr = "err"

-----------------------------------------------------------------------------
(* C4 *)

\* C4: with staged changes and a valid work-item, type number, description,
\* (part_000) empty body line and "y" supplied on stdin, every prompt gets the
\* next unread line and no line is lost, however the lines reach the process,
\* so the run ends with the commit of "<n-th code>(<work-item>): <description>"
\* and the success banner.
C4_ScriptedRunCommits ==
    (script # << >> /\ diffErr = "err") =>
        /\ lost = 0
        /\ pc = "exited" =>
            /\ commitCalls = 1
            /\ \E n \in Selected(script[2]) :
                   commitArg = FirstLine(ClaimedCodes[n], script[1], script[3])
            /\ commitErr = "nil" => out = Out("success", 0)

-----------------------------------------------------------------------------
(* C5 *)

IsLetter(c) == IsUpper(c) \/ IsLower(c)

Hyphens(t) == { i \in 1..Len(t) : t[i] = "-" }

\* t is <digits> followed by zero or more -<segment>, a segment being one or
\* more lowercase letters or digits
DigitsThenSegments(t) ==
    LET first == IF Hyphens(t) = { } THEN Len(t) + 1
                 ELSE CHOOSE i \in Hyphens(t) : \A j \in Hyphens(t) : i <= j
    IN  /\ first >= 2
        /\ \A i \in 1..(first - 1) : IsDigit(t[i])
        /\ \A i \in first..Len(t) : t[i] = "-" \/ IsLower(t[i]) \/ IsDigit(t[i])
        /\ \A i \in Hyphens(t) : i < Len(t) /\ t[i + 1] # "-"

\* w is bcds-<digits> followed by zero or more -<lowercase alphanumerics>
IsBcdsWorkItem(w) ==
    /\ Len(w) >= 6
    /\ SubSeq(w, 1, 5) = << "b","c","d","s","-" >>
    /\ DigitsThenSegments(SubSeq(w, 6, Len(w)))

\* w is <digits>, or <letters>-<digits>
IsOptionalPrefixWorkItem(w) ==
    \E k \in 0..Len(w) :
        /\ k < Len(w)
        /\ \A i \in (k + 1)..Len(w) : IsDigit(w[i])
        /\ k # 0 => (k >= 2 /\ w[k] = "-" /\ \A i \in 1..(k - 1) : IsLetter(w[i]))

\* w, lowercased, is <prefix>-<digits> followed by zero or more
\* -<alphanumerics>: the prefix is bcds in part_000, any letters in main_go
IsPrefixedWorkItem(v, w) ==
    \E k \in 2..Len(w) :
        /\ w[k] = "-"
        /\ \A i \in 1..(k - 1) : IsLower(w[i])
        /\ v = "part_000" => SubSeq(w, 1, k - 1) = << "b","c","d","s" >>
        /\ DigitsThenSegments(SubSeq(w, k + 1, Len(w)))

-----------------------------------------------------------------------------
(* C6 *)

ClaimedDescChars ==
    Range(UpperLetters) \cup Range(LowerLetters) \cup Range(DigitChars)
        \cup { " ", ",", ".", "!", "?", "-", "(", ")" }

\* C6: in both variants validateEnglishDescription accepts exactly the strings
\* of 1 to 72 characters made of letters, digits, space, comma, period,
\* exclamation mark, question mark, hyphen and the two parentheses, whatever
\* the first character.
C6_DescriptionCharset ==
    (call.fn = "description" /\ call.done) =>
        (call.ok <=>
            /\ Len(call.arg) >= 1
            /\ Len(call.arg) <= 72
            /\ \A i \in 1..Len(call.arg) : call.arg[i] \in ClaimedDescChars)

-----------------------------------------------------------------------------
(* C7 *)

\* C7: in the type loop an input that parses as an integer n, 1 <= n <= 10,
\* selects the n-th code of feat, fix, docs, style, refactor, perf, test,
\* build, ci, chore and leaves the loop; any other input selects nothing,
\* prints the range hint and asks again.
C7_TypeSelection ==
    [][ (pc = "type" /\ eof' = eof) =>
            LET sel == Selected(TrimSpace(line'))
            IN  IF sel # { }
                THEN /\ \E n \in sel : commitType' = ClaimedCodes[n]
                     /\ pc' = "desc"
                ELSE /\ commitType' = commitType
                     /\ pc' = "type"
                     /\ out' = Out("range_hint", 10) ]_vars

C7_Witness ==
    /\ pc = "desc"
    /\ line = << "1","0" >>
    /\ commitType = << "c","h","o","r","e" >>
    /\ variant = "main_go"

-----------------------------------------------------------------------------
(* C8 *)

\* C8: the message is "<type>(<work-item>): <description>", followed, when the
\* body is not empty, by one blank line and the body; the body is the lines
\* entered before the first empty line, joined by newlines; only an empty
\* line ends the body.
C8_MessageAndBody ==
    pc = "confirm" =>
        /\ commitMessage =
              FirstLine(commitType, workItem, description)
                 \o (IF body # << >> THEN << "\n", "\n" >> \o body ELSE << >>)
        /\ variant = "part_000" => (body = Join(lines) /\ line = << >>)

-----------------------------------------------------------------------------
(* C9 *)

\* C9: the ten catalog entries are printed once each, numbered 1 to 10, in
\* the order feat, fix, ..., chore: the i-th entry printed is number i.
C9_CatalogPrintedInOrder ==
    /\ visited = 1..Cardinality(visited)
    /\ \A k \in visited : getCommitTypes[k] = ClaimedCodes[k]
    /\ pc \in { "type", "desc", "body", "confirm", "commit" } => visited = 1..10

-----------------------------------------------------------------------------
(* C10 *)

InLoop == pc \in { "workitem", "type", "desc" }

\* C10: each validation loop asks again while the input is invalid, keeps
\* nothing of a rejected input and is left only by a valid input, never by an
\* exit; at end-of-file the work-item loop never ends; and with an operator
\* who eventually types a valid line at each prompt the run reaches the
\* confirmation prompt unless stdin reaches end-of-file first.
C10_LoopsUntilValid ==
    /\ [][ (pc = "workitem" /\ pc' # pc) =>
              /\ pc' = "catalog"
              /\ workItem' = WorkItemOf(variant, line')
              /\ validateWorkItem(variant, workItem') ]_vars
    /\ [][ (pc = "type" /\ pc' # pc) =>
              /\ pc' = "desc"
              /\ Selected(TrimSpace(line')) # { } ]_vars
    /\ [][ (pc = "desc" /\ pc' # pc) =>
              /\ pc' \in { "body", "confirm" }
              /\ description' = TrimSpace(line')
              /\ validateEnglishDescription(variant, description') ]_vars
    /\ [][ (InLoop /\ pc' = pc) =>
              /\ exitCode' = -1
              /\ commitType' = commitType
              /\ events' = events ]_vars
    /\ [][ (AtEOF /\ pc = "workitem") => pc' = "workitem" ]_vars
    /\ [](InLoop => <>(pc \in { "confirm", "commit", "exited" } \/ AtEOF))

C10_Witness ==
    /\ pc = "workitem"
    /\ AtEOF
    /\ out = Out("invalid_workitem", 0)
    /\ readAny

====
